---- MODULE Spec2Model ----
(***************************************************************************)
(* Cost Manager: the AddCostForm component (src/src/components/            *)
(* AddCostForm.jsx) with the Local Store and Change Notifier it writes to, *)
(* and the SettingsView component (src/unnamed/part_000) with the Rates    *)
(* Provider it configures.                                                 *)
(*                                                                         *)
(* Text is modelled as a sequence of one-character strings so that         *)
(* String.prototype.trim and Number() are computed, not assumed.           *)
(* The services idb.module.js and exchangeRates are imported by the two    *)
(* components but their code is not part of the sources; their operators   *)
(* follow sections 4.1-4.3 of the specification.                           *)
(***************************************************************************)
EXTENDS Integers, Sequences, FiniteSets, TLC

(* ------------------------------ bounds --------------------------------- *)

\* addCost calls the form may start in one behaviour
MaxSubmits == 2

\* handleSave / handleReset invocations in one behaviour
MaxOps == 3

(* --------------------------- AddCostForm.jsx --------------------------- *)

CURRENCIES == {"USD", "ILS", "GBP", "EURO"}

CATEGORIES == {"Food", "Car", "Education", "Home", "Health", "Leisure", "Other"}

INITIAL_FORM_STATE ==
    [sum |-> <<>>, currency |-> "USD", category |-> "Food", description |-> <<>>]

SumErrorMsg == "Sum must be a positive number"

DescriptionErrorMsg == "Description is required"

AddFailedMsg == "Failed to add cost, please try again."

\* values an onChange event can carry for each field (event.target.value).
\* handleChange stores whatever value the event carries: the option lists
\* exist only in the rendered markup, so one value outside CURRENCIES and
\* one outside CATEGORIES are included, as is a non-numeric sum.
SumInputs == { <<>>, <<"a">>, <<"0">>, <<"-", "5">>, <<"0", "7">> }

CurrencyInputs == {"ILS", "XXX"}

CategoryInputs == {"Toys"}

DescriptionInputs == { <<" ", " ">>, <<" ", "m", " ">> }

IsSpace(c) == c = " "

RECURSIVE TrimStart(_)
TrimStart(s) ==
    IF s # <<>> /\ IsSpace(Head(s)) THEN TrimStart(Tail(s)) ELSE s

RECURSIVE TrimEnd(_)
TrimEnd(s) ==
    IF s # <<>> /\ IsSpace(s[Len(s)]) THEN TrimEnd(SubSeq(s, 1, Len(s) - 1)) ELSE s

\* String.prototype.trim
Trim(s) == TrimEnd(TrimStart(s))

Digits == {"0", "1", "2", "3", "4", "5", "6", "7", "8", "9"}

DigitValue(c) ==
    CASE c = "0" -> 0 [] c = "1" -> 1 [] c = "2" -> 2 [] c = "3" -> 3
      [] c = "4" -> 4 [] c = "5" -> 5 [] c = "6" -> 6 [] c = "7" -> 7
      [] c = "8" -> 8 [] c = "9" -> 9

RECURSIVE DigitsValue(_)
DigitsValue(s) ==
    IF s = <<>> THEN 0
    ELSE 10 * DigitsValue(SubSeq(s, 1, Len(s) - 1)) + DigitValue(s[Len(s)])

AllDigits(s) == s # <<>> /\ \A i \in 1..Len(s) : s[i] \in Digits

NaN == [nan |-> TRUE, val |-> 0]

\* Number(text) for integer literals: surrounding white space is ignored,
\* the empty text is 0, an optional sign precedes the digits, anything
\* else is NaN
ToNumber(s) ==
    LET t == Trim(s) IN
    IF t = <<>> THEN [nan |-> FALSE, val |-> 0]
    ELSE IF Head(t) = "-"
         THEN IF AllDigits(Tail(t))
              THEN [nan |-> FALSE, val |-> 0 - DigitsValue(Tail(t))] ELSE NaN
    ELSE IF Head(t) = "+"
         THEN IF AllDigits(Tail(t))
              THEN [nan |-> FALSE, val |-> DigitsValue(Tail(t))] ELSE NaN
    ELSE IF AllDigits(t) THEN [nan |-> FALSE, val |-> DigitsValue(t)] ELSE NaN

\* validateForm with the positivity test of the sum left out
validateForm_NoPositiveCheck(f) ==
    LET numericSum == ToNumber(f.sum) IN
    IF f.sum = <<>> \/ numericSum.nan THEN SumErrorMsg
    ELSE IF Trim(f.description) = <<>> THEN DescriptionErrorMsg
    ELSE ""

validateForm(f) ==
    LET numericSum == ToNumber(f.sum) IN
    IF f.sum = <<>> \/ numericSum.nan \/ numericSum.val <= 0 THEN SumErrorMsg
    ELSE IF Trim(f.description) = <<>> THEN DescriptionErrorMsg
    ELSE ""

\* the argument of addCost built by handleSubmit, with description untrimmed
CostOf_NoTrim(f) ==
    [sum |-> ToNumber(f.sum).val, currency |-> f.currency,
     category |-> f.category, description |-> f.description]

\* the argument of addCost built by handleSubmit
CostOf(f) ==
    [sum |-> ToNumber(f.sum).val, currency |-> f.currency,
     category |-> f.category, description |-> Trim(f.description)]

(* --------------- idb.module.js: Local Store, Change Notifier ----------- *)

ListenerIds == {"report", "chart"}

NoNotify == [id |-> 0, committed |-> TRUE, views |-> <<>>]

\* the CostEntry invariant addCost enforces
ValidCost(c) ==
    /\ c.sum > 0
    /\ Trim(c.description) # <<>>
    /\ c.currency \in CURRENCIES
    /\ c.category \in CATEGORIES

\* addCost with notification placed ahead of the write
AddCostSteps_NotifyFirst == <<"validate", "notify", "commit">>

\* the order in which addCost works: validate, persist, then notify
AddCostSteps == <<"validate", "commit", "notify">>

\* getAllCosts as a subscriber reads it: the ids of the persisted records
StoredIds(st) == { st[k].id : k \in 1..Len(st) }

RemoveAt(s, i) == SubSeq(s, 1, i - 1) \o SubSeq(s, i + 1, Len(s))

(* ------------------- exchangeRates: Rates Provider --------------------- *)

DEFAULT_URL == "default-rates-url"

\* localStorage.getItem gives null: no override is persisted
Absent == "<absent>"

\* texts a user can put in the Exchange Rates URL field
UrlInputs == {DEFAULT_URL, "custom-full", "custom-partial"}

\* null in the rates state / no table obtained yet
NullRates == [none |-> 0]

\* null in the error state
Null == "<null>"

InvalidStructureMsg == "Invalid exchange rates JSON structure"

NetworkMsgs == {"Failed to fetch", ""}

\* what each endpoint answers when it is reachable (factors in hundredths)
Endpoint(u) ==
    CASE u = DEFAULT_URL -> [USD |-> 100, ILS |-> 350, GBP |-> 80, EURO |-> 90]
      [] u = "custom-full" -> [USD |-> 100, ILS |-> 370, GBP |-> 75, EURO |-> 92]
      [] OTHER -> [USD |-> 100, GBP |-> 80]

\* the RatesTable invariant: a factor for every supported currency
ValidRates(p) ==
    /\ CURRENCIES \subseteq DOMAIN p
    /\ \A c \in CURRENCIES : p[c] > 0

\* getRatesURL: the persisted override, else the built-in default
getRatesURL(item) == IF item = Absent THEN DEFAULT_URL ELSE item

\* the ways a fetchRates call against u can settle
FetchOutcomes(u) ==
    { [ok |-> FALSE, message |-> m, data |-> NullRates] : m \in NetworkMsgs }
    \cup (IF ValidRates(Endpoint(u))
          THEN { [ok |-> TRUE, message |-> "", data |-> Endpoint(u)] }
          ELSE { [ok |-> FALSE, message |-> InvalidStructureMsg, data |-> NullRates] })

(* --------------------- SettingsView (part_000) ------------------------- *)

UnsupportedFormatMsg ==
    "The API you provided returned an unsupported format. Please use a valid URL that provides rates in JSON format with USD, GBP, EURO and ILS."

SaveFallbackMsg == "Failed to fetch rates. Please check the URL."

ResetFallbackMsg == "Failed to load default API"

\* the text handleSave's catch block puts in the error state
SaveErrorText(message) ==
    IF message = InvalidStructureMsg THEN UnsupportedFormatMsg
    ELSE IF message # "" THEN message ELSE SaveFallbackMsg

\* the text handleReset's catch block puts in the error state
ResetErrorText(message) ==
    IF message # "" THEN message ELSE ResetFallbackMsg

NoOp == [kind |-> "none", arg |-> Absent]

(* ------------------------------- state --------------------------------- *)

VARIABLES
    form,          \* AddCostForm: the controlled fields
    loading,       \* AddCostForm: an addCost call is awaited
    errorMessage,  \* AddCostForm: inline error text
    success,       \* AddCostForm: the success snackbar is open
    calls,         \* addCost calls in flight, with the awaiting handleSubmit
    started,       \* number of addCost calls started so far
    store,         \* Local Store: persisted records in insertion order
    nextId,        \* Local Store: key generator
    listeners,     \* Change Notifier: callbacks in registration order
    lastNotify,    \* what the most recent notify delivered
    url,           \* SettingsView: the URL text field
    rates,         \* SettingsView: displayed rates
    error,         \* SettingsView: displayed error
    ratesURL,      \* localStorage item "ratesURL"
    currentTable,  \* Rates Provider: the active RatesTable
    fetches,       \* fetchRates calls in flight, with the awaiting handler
    opCount,       \* number of handleSave / handleReset invocations so far
    shownOp,       \* the invocation whose outcome is displayed
    lastOp         \* the most recently started invocation and its input

formVars == <<form, loading, errorMessage, success, calls, started, store,
              nextId, listeners, lastNotify>>

settingsVars == <<url, rates, error, ratesURL, currentTable, fetches, opCount,
                  shownOp, lastOp>>

vars == <<form, loading, errorMessage, success, calls, started, store, nextId,
          listeners, lastNotify, url, rates, error, ratesURL, currentTable,
          fetches, opCount, shownOp, lastOp>>

(* ------------------------ AddCostForm: handlers ------------------------ *)

\* handleChange: only the changed field is replaced
HandleChange ==
    /\ \/ \E v \in SumInputs : form' = [form EXCEPT !.sum = v]
       \/ \E v \in CurrencyInputs \cup {INITIAL_FORM_STATE.currency} :
              form' = [form EXCEPT !.currency = v]
       \/ \E v \in CategoryInputs \cup {INITIAL_FORM_STATE.category} :
              form' = [form EXCEPT !.category = v]
       \/ \E v \in DescriptionInputs : form' = [form EXCEPT !.description = v]
    /\ form' # form
    /\ UNCHANGED <<loading, errorMessage, success, calls, started, store,
                   nextId, listeners, lastNotify>>
    /\ UNCHANGED settingsVars

\* the submit button with its disabled attribute ignored
SubmitEnabled_Always == TRUE

\* the submit button is disabled while loading
SubmitEnabled == ~loading

\* handleSubmit up to its await: validation, then addCost is called
HandleSubmit ==
    /\ SubmitEnabled
    /\ LET validationError == validateForm(form) IN
       IF validationError # ""
       THEN /\ errorMessage' = validationError
            /\ UNCHANGED <<loading, calls, started>>
       ELSE /\ started < MaxSubmits
            /\ errorMessage' = ""
            /\ loading' = TRUE
            /\ started' = started + 1
            /\ calls' = Append(calls, [cost |-> CostOf(form), typed |-> form,
                                       pc |-> 1, state |-> "running",
                                       id |-> 0, err |-> ""])
    /\ UNCHANGED <<form, success, store, nextId, listeners, lastNotify>>
    /\ UNCHANGED settingsVars

\* handleSubmit after the await, addCost fulfilled: reset, success, finally
HandleSubmitFulfilled ==
    \E i \in 1..Len(calls) :
        /\ calls[i].state = "resolved"
        /\ form' = INITIAL_FORM_STATE
        /\ success' = TRUE
        /\ loading' = FALSE
        /\ calls' = RemoveAt(calls, i)
        /\ UNCHANGED <<errorMessage, started, store, nextId, listeners,
                       lastNotify>>
        /\ UNCHANGED settingsVars

\* the catch branch of handleSubmit, also resetting the form
HandleSubmitRejected_ResetsForm ==
    \E i \in 1..Len(calls) :
        /\ calls[i].state = "rejected"
        /\ errorMessage' = AddFailedMsg
        /\ form' = INITIAL_FORM_STATE
        /\ loading' = FALSE
        /\ calls' = RemoveAt(calls, i)
        /\ UNCHANGED <<success, started, store, nextId, listeners,
                       lastNotify>>
        /\ UNCHANGED settingsVars

\* handleSubmit after the await, addCost rejected: catch, then finally
HandleSubmitRejected ==
    \E i \in 1..Len(calls) :
        /\ calls[i].state = "rejected"
        /\ errorMessage' = AddFailedMsg
        /\ loading' = FALSE
        /\ calls' = RemoveAt(calls, i)
        /\ UNCHANGED <<form, success, started, store, nextId, listeners,
                       lastNotify>>
        /\ UNCHANGED settingsVars

\* Snackbar / Alert onClose
CloseSnackbar ==
    /\ success
    /\ success' = FALSE
    /\ UNCHANGED <<form, loading, errorMessage, calls, started, store, nextId,
                   listeners, lastNotify>>
    /\ UNCHANGED settingsVars

(* -------------------- Local Store and Change Notifier ------------------ *)

\* subscribe(listener)
Subscribe ==
    \E l \in ListenerIds :
        /\ \A k \in 1..Len(listeners) : listeners[k] # l
        /\ listeners' = Append(listeners, l)
        /\ UNCHANGED <<form, loading, errorMessage, success, calls, started,
                       store, nextId, lastNotify>>
        /\ UNCHANGED settingsVars

\* the unsubscribe function subscribe returned
Unsubscribe ==
    \E k \in 1..Len(listeners) :
        /\ listeners' = RemoveAt(listeners, k)
        /\ UNCHANGED <<form, loading, errorMessage, success, calls, started,
                       store, nextId, lastNotify>>
        /\ UNCHANGED settingsVars

Advance(c) ==
    IF c.pc = Len(AddCostSteps) THEN [c EXCEPT !.state = "resolved"]
    ELSE [c EXCEPT !.pc = c.pc + 1]

\* addCost: the entry is checked against the CostEntry invariant
AddCostValidate ==
    \E i \in 1..Len(calls) :
        /\ calls[i].state = "running"
        /\ AddCostSteps[calls[i].pc] = "validate"
        /\ calls' = [calls EXCEPT ![i] =
                        IF ValidCost(calls[i].cost) THEN Advance(calls[i])
                        ELSE [calls[i] EXCEPT !.state = "rejected",
                                              !.err = "ValidationError"]]
        /\ UNCHANGED <<form, loading, errorMessage, success, started, store,
                       nextId, listeners, lastNotify>>
        /\ UNCHANGED settingsVars

\* addCost: the record is persisted under a fresh id, or storage fails
AddCostCommit ==
    \E i \in 1..Len(calls) :
        /\ calls[i].state = "running"
        /\ AddCostSteps[calls[i].pc] = "commit"
        /\ \/ /\ store' = Append(store, [id |-> nextId,
                                         sum |-> calls[i].cost.sum,
                                         currency |-> calls[i].cost.currency,
                                         category |-> calls[i].cost.category,
                                         description |-> calls[i].cost.description])
              /\ nextId' = nextId + 1
              /\ calls' = [calls EXCEPT ![i] = Advance([calls[i] EXCEPT !.id = nextId])]
           \/ /\ calls' = [calls EXCEPT ![i] =
                              [calls[i] EXCEPT !.state = "rejected",
                                               !.err = "StorageError"]]
              /\ UNCHANGED <<store, nextId>>
        /\ UNCHANGED <<form, loading, errorMessage, success, started,
                       listeners, lastNotify>>
        /\ UNCHANGED settingsVars

\* addCost: notify({type: "cost-added"}); every listener re-reads the store
AddCostNotify ==
    \E i \in 1..Len(calls) :
        /\ calls[i].state = "running"
        /\ AddCostSteps[calls[i].pc] = "notify"
        /\ LET rid == IF calls[i].id # 0 THEN calls[i].id ELSE nextId IN
           lastNotify' = [id |-> rid,
                          committed |-> rid \in StoredIds(store),
                          views |-> [k \in 1..Len(listeners) |-> StoredIds(store)]]
        /\ calls' = [calls EXCEPT ![i] = Advance(calls[i])]
        /\ UNCHANGED <<form, loading, errorMessage, success, started, store,
                       nextId, listeners>>
        /\ UNCHANGED settingsVars

(* ----------------------- SettingsView: handlers ------------------------ *)

\* onChange of the URL text field
HandleUrlChange ==
    \E v \in UrlInputs :
        /\ v # url
        /\ url' = v
        /\ UNCHANGED <<rates, error, ratesURL, currentTable, fetches, opCount,
                       shownOp, lastOp>>
        /\ UNCHANGED formVars

\* handleSave up to its await: setRatesURL(url), then fetchRates is called
HandleSave ==
    /\ opCount < MaxOps
    /\ ratesURL' = url
    /\ opCount' = opCount + 1
    /\ lastOp' = [kind |-> "save", arg |-> url]
    /\ fetches' = Append(fetches, [op |-> "save", n |-> opCount + 1,
                                   from |-> getRatesURL(ratesURL')])
    /\ UNCHANGED <<url, rates, error, currentTable, shownOp>>
    /\ UNCHANGED formVars

\* handleSave after the await, fetchRates fulfilled
HandleSaveFulfilled ==
    \E i \in 1..Len(fetches) : \E r \in FetchOutcomes(fetches[i].from) :
        /\ fetches[i].op = "save"
        /\ r.ok
        /\ currentTable' = r.data
        /\ rates' = r.data
        /\ error' = Null
        /\ shownOp' = fetches[i].n
        /\ fetches' = RemoveAt(fetches, i)
        /\ UNCHANGED <<url, ratesURL, opCount, lastOp>>
        /\ UNCHANGED formVars

\* the catch block of handleSave, also withdrawing the stored URL
HandleSaveRejected_RollsBack ==
    \E i \in 1..Len(fetches) : \E r \in FetchOutcomes(fetches[i].from) :
        /\ fetches[i].op = "save"
        /\ ~r.ok
        /\ error' = SaveErrorText(r.message)
        /\ rates' = NullRates
        /\ ratesURL' = Absent
        /\ shownOp' = fetches[i].n
        /\ fetches' = RemoveAt(fetches, i)
        /\ UNCHANGED <<url, currentTable, opCount, lastOp>>
        /\ UNCHANGED formVars

\* the catch block of handleSave without setRates(null)
HandleSaveRejected_KeepsRates ==
    \E i \in 1..Len(fetches) : \E r \in FetchOutcomes(fetches[i].from) :
        /\ fetches[i].op = "save"
        /\ ~r.ok
        /\ error' = SaveErrorText(r.message)
        /\ shownOp' = fetches[i].n
        /\ fetches' = RemoveAt(fetches, i)
        /\ UNCHANGED <<url, rates, ratesURL, currentTable, opCount, lastOp>>
        /\ UNCHANGED formVars

\* handleSave after the await, fetchRates rejected: the catch block
HandleSaveRejected ==
    \E i \in 1..Len(fetches) : \E r \in FetchOutcomes(fetches[i].from) :
        /\ fetches[i].op = "save"
        /\ ~r.ok
        /\ error' = SaveErrorText(r.message)
        /\ rates' = NullRates
        /\ shownOp' = fetches[i].n
        /\ fetches' = RemoveAt(fetches, i)
        /\ UNCHANGED <<url, ratesURL, currentTable, opCount, lastOp>>
        /\ UNCHANGED formVars

\* handleReset without the update of the input field
HandleReset_KeepsField ==
    /\ opCount < MaxOps
    /\ ratesURL' = Absent
    /\ opCount' = opCount + 1
    /\ lastOp' = [kind |-> "reset", arg |-> Absent]
    /\ fetches' = Append(fetches, [op |-> "reset", n |-> opCount + 1,
                                   from |-> getRatesURL(ratesURL')])
    /\ UNCHANGED <<url, rates, error, currentTable, shownOp>>
    /\ UNCHANGED formVars

\* handleReset up to its await: the override is removed, the field shows
\* the default, then fetchRates is called
HandleReset ==
    /\ opCount < MaxOps
    /\ ratesURL' = Absent
    /\ url' = getRatesURL(ratesURL')
    /\ opCount' = opCount + 1
    /\ lastOp' = [kind |-> "reset", arg |-> Absent]
    /\ fetches' = Append(fetches, [op |-> "reset", n |-> opCount + 1,
                                   from |-> getRatesURL(ratesURL')])
    /\ UNCHANGED <<rates, error, currentTable, shownOp>>
    /\ UNCHANGED formVars

\* handleReset after the await, fetchRates fulfilled
HandleResetFulfilled ==
    \E i \in 1..Len(fetches) : \E r \in FetchOutcomes(fetches[i].from) :
        /\ fetches[i].op = "reset"
        /\ r.ok
        /\ currentTable' = r.data
        /\ rates' = r.data
        /\ error' = Null
        /\ shownOp' = fetches[i].n
        /\ fetches' = RemoveAt(fetches, i)
        /\ UNCHANGED <<url, ratesURL, opCount, lastOp>>
        /\ UNCHANGED formVars

\* handleReset after the await, fetchRates rejected: the catch block
HandleResetRejected ==
    \E i \in 1..Len(fetches) : \E r \in FetchOutcomes(fetches[i].from) :
        /\ fetches[i].op = "reset"
        /\ ~r.ok
        /\ error' = ResetErrorText(r.message)
        /\ rates' = NullRates
        /\ shownOp' = fetches[i].n
        /\ fetches' = RemoveAt(fetches, i)
        /\ UNCHANGED <<url, ratesURL, currentTable, opCount, lastOp>>
        /\ UNCHANGED formVars

(* --------------------------- specifications ---------------------------- *)

\* SettingsView as useState leaves it: the field shows getRatesURL()
SettingsMounted ==
    /\ url = getRatesURL(ratesURL)
    /\ rates = NullRates
    /\ error = Null
    /\ currentTable = NullRates
    /\ fetches = <<>>
    /\ opCount = 0
    /\ shownOp = 0
    /\ lastOp = NoOp

FormMounted ==
    /\ form = INITIAL_FORM_STATE
    /\ loading = FALSE
    /\ errorMessage = ""
    /\ success = FALSE
    /\ calls = <<>>
    /\ started = 0
    /\ store = <<>>
    /\ nextId = 1
    /\ listeners = <<>>
    /\ lastNotify = NoNotify

\* both components freshly mounted on a fresh installation
Init ==
    /\ FormMounted
    /\ ratesURL = Absent
    /\ SettingsMounted

\* the Add Cost page with the store and its subscribers
Next ==
    \/ HandleChange
    \/ HandleSubmit
    \/ HandleSubmitFulfilled
    \/ HandleSubmitRejected
    \/ CloseSnackbar
    \/ Subscribe
    \/ Unsubscribe
    \/ AddCostValidate
    \/ AddCostCommit
    \/ AddCostNotify

Spec == Init /\ [][Next]_vars

\* every started addCost call settles and its handleSubmit resumes
FairSpec ==
    /\ Spec
    /\ WF_vars(AddCostValidate)
    /\ WF_vars(AddCostCommit)
    /\ WF_vars(AddCostNotify)
    /\ WF_vars(HandleSubmitFulfilled)
    /\ WF_vars(HandleSubmitRejected)

\* the Settings page
SettingsNext ==
    \/ HandleUrlChange
    \/ HandleSave
    \/ HandleSaveFulfilled
    \/ HandleSaveRejected
    \/ HandleReset
    \/ HandleResetFulfilled
    \/ HandleResetRejected

\* the Settings page opened with or without an override kept in
\* localStorage by an earlier session
SettingsInit ==
    /\ FormMounted
    /\ ratesURL \in {Absent} \cup UrlInputs
    /\ SettingsMounted

SettingsSpec == SettingsInit /\ [][SettingsNext]_vars

(* ------------------------------ properties ----------------------------- *)

SumInvalid(f) ==
    f.sum = <<>> \/ ToNumber(f.sum).nan \/ ToNumber(f.sum).val <= 0

DescriptionBlank(f) == Trim(f.description) = <<>>

\* a step in which the handleSubmit awaiting a call in state st resumes
SubmitResumes(st) ==
    \E i \in 1..Len(calls) : calls[i].state = st /\ calls' = RemoveAt(calls, i)

\* a step in which an awaited fetchRates settles and its handler resumes
FetchSettles == Len(fetches') < Len(fetches)

\* C1: an invalid input never reaches storage.  Every stored record
\* satisfies the CostEntry invariant; a submission whose sum is empty,
\* non-numeric or not positive, or whose description is blank after
\* trimming, ends with a validation message, starts no addCost call and
\* leaves the store alone; an addCost call for an entry with an unrecognized
\* currency or category never changes the store and ends with
\* ValidationError, shown by the form as a failure.
C1_InvalidNeverStored ==
    /\ [](\A k \in 1..Len(store) : ValidCost(store[k]))
    /\ [][(HandleSubmit /\ (SumInvalid(form) \/ DescriptionBlank(form)))
            => /\ errorMessage' \in {SumErrorMsg, DescriptionErrorMsg}
               /\ calls' = calls
               /\ store' = store]_vars
    /\ [][\A i \in 1..Len(calls) :
            ~ValidCost(calls[i].cost)
            => /\ store' = store
               /\ calls' = RemoveAt(calls, i)
                  => /\ calls[i].err = "ValidationError"
                     /\ errorMessage' = AddFailedMsg]_vars

\* a record is stored, and a later submission with a sum that is not
\* positive was turned down with the record count still 1
C1_Witness ==
    /\ Len(store) = 1
    /\ started = 1
    /\ calls = <<>>
    /\ errorMessage = SumErrorMsg
    /\ SumInvalid(form)
    /\ form.currency \notin CURRENCIES

\* C2: every successful addCost puts its entry in the store exactly once,
\* under an id no other record has, with the sum the user typed (as a
\* number), the chosen currency and category and the trimmed description;
\* records stored earlier stay as they are.
C2_AddedOncePreserved ==
    /\ [](\A j, k \in 1..Len(store) : j # k => store[j].id # store[k].id)
    /\ [](\A i \in 1..Len(calls) :
            calls[i].id # 0
            => /\ Cardinality({k \in 1..Len(store) : store[k].id = calls[i].id}) = 1
               /\ \A k \in 1..Len(store) :
                    store[k].id = calls[i].id
                    => /\ store[k].sum = ToNumber(calls[i].typed.sum).val
                       /\ store[k].currency = calls[i].typed.currency
                       /\ store[k].category = calls[i].typed.category
                       /\ store[k].description = Trim(calls[i].typed.description))
    /\ [][\/ store' = store
          \/ /\ Len(store') = Len(store) + 1
             /\ SubSeq(store', 1, Len(store)) = store]_vars

\* two successful submissions, differing in currency, are both stored
C2_Witness ==
    /\ Len(store) = 2
    /\ calls = <<>>
    /\ success
    /\ store[1].currency = "ILS"
    /\ store[2].currency = "USD"
    /\ store[1].id # store[2].id

\* C3: a change notification fires only after its record is committed, and
\* every listener that re-reads the store when notified finds the record.
C3_NotifyAfterCommit ==
    /\ lastNotify.committed
    /\ \A k \in DOMAIN lastNotify.views : lastNotify.id \in lastNotify.views[k]

\* the second record's notification reached two subscribers
C3_Witness ==
    /\ lastNotify.id = 2
    /\ Len(lastNotify.views) = 2
    /\ Len(store) = 2

C8_OneInFlight ==
    /\ [](Len(calls) <= 1)
    /\ [](loading <=> Len(calls) = 1)
    /\ [](Len(store) <= started)
    /\ [][Len(calls') > Len(calls) => ~loading]_vars

\* the second call is in flight while the user is already typing again
C8_Witness ==
    /\ loading
    /\ Len(calls) = 1
    /\ started = 2
    /\ Len(store) = 1
    /\ form # calls[1].typed

\* C4 as claimed: a failed fetch leaves the rates that were current before
\* the call in place, in the provider and in SettingsView.
C4_PriorRatesKept ==
    [][(FetchSettles /\ error' # Null)
         => rates' = rates /\ currentTable' = currentTable]_vars

\* C5: the URL handleSave stored is what getRatesURL returns from then on,
\* while the test fetch is pending and after it succeeded or failed; no
\* settling fetch touches the stored URL.
C5_SavedUrlStays ==
    /\ [](lastOp.kind = "save" => getRatesURL(ratesURL) = lastOp.arg)
    /\ [][FetchSettles => ratesURL' = ratesURL]_vars

\* a saved URL whose test failed on the format is still the configured one
C5_Witness ==
    /\ lastOp = [kind |-> "save", arg |-> "custom-partial"]
    /\ fetches = <<>>
    /\ error = UnsupportedFormatMsg
    /\ getRatesURL(ratesURL) = "custom-partial"

\* C6: handleReset leaves no override, so getRatesURL gives the default,
\* and puts the default in the URL field; neither is changed when a fetch
\* settles, whatever its outcome.
C6_ResetToDefault ==
    /\ [](lastOp.kind = "reset"
            => ratesURL = Absent /\ getRatesURL(ratesURL) = DEFAULT_URL)
    /\ [][(opCount' = opCount + 1 /\ lastOp'.kind = "reset")
            => url' = DEFAULT_URL /\ getRatesURL(ratesURL') = DEFAULT_URL]_vars
    /\ [][FetchSettles => url' = url /\ ratesURL' = ratesURL]_vars

\* a reset after a save of a custom URL, with the default fetch failed
C6_Witness ==
    /\ lastOp.kind = "reset"
    /\ opCount = 2
    /\ fetches = <<>>
    /\ shownOp = 2
    /\ error # Null
    /\ url = DEFAULT_URL
    /\ getRatesURL(ratesURL) = DEFAULT_URL

\* C9 as claimed: once every fetch has settled, what is displayed comes
\* from the invocation started last.
C9_LatestWins ==
    (fetches = <<>> /\ opCount > 0) => shownOp = opCount

\* C10: rates and error are never both set, and once a handleSave or
\* handleReset has completed exactly one of them is set: rates after a
\* success, error after a failure.
C10_RatesXorError ==
    /\ [](~(rates # NullRates /\ error # Null))
    /\ [](shownOp > 0 => ((rates # NullRates) # (error # Null)))
    /\ [][FetchSettles
            => IF error' = Null THEN rates' # NullRates ELSE rates' = NullRates]_vars

\* a failure displayed after an earlier success had shown rates
C10_Witness ==
    /\ opCount = 2
    /\ shownOp = 2
    /\ fetches = <<>>
    /\ currentTable # NullRates
    /\ error # Null
    /\ rates = NullRates

====
